---- MODULE Spec2Model ----
(***************************************************************************)
(* ImageResolver (src/src/resolve_image.rs): one ImageResolver is built,   *)
(* configured through its builder methods, and asked once to resolve a     *)
(* message into image bytes.  Strings are sequences of one-character       *)
(* strings, so that ends_with, split, trim_matches and the regular         *)
(* expressions are computed the way the code computes them.  Option values  *)
(* are sequences of length 0 (None) or 1 (Some).                           *)
(***************************************************************************)
EXTENDS Integers, Sequences, FiniteSets, TLC

VARIABLES
    resolver,               \* the ImageResolver's fields
    pc,                     \* where the resolve call stands
    message,                \* the invoking Message, Some once resolve is called
    query,                  \* the query argument of resolve
    resolved_query,         \* resolve's local resolved_query
    allowed_content_types,  \* resolve's local allow-list of content types
    allowed_suffixes,       \* resolve's local allow-list of file suffixes
    call_site,              \* the line of the fallback() call being run
    candidate,              \* the RawResult handed to _sanitize
    reply_reads,            \* fields of referenced_message the closure has read
    sanitize_calls,         \* how many times _sanitize was entered
    url,                    \* _sanitize's local url (Url branch)
    scraped,                \* the share page answer read by _scrape_*
    resp,                   \* the answer to the direct GET
    requests,               \* the URLs requested with reqwest::get, in order
    downloads,              \* the attachments whose download() was invoked
    result                  \* what resolve returned

vars == <<resolver, pc, message, query, resolved_query, allowed_content_types,
          allowed_suffixes, call_site, candidate, reply_reads, sanitize_calls,
          url, scraped, resp, requests, downloads, result>>

\* ------------------------------------------------------------------ bounds
\* Longest body (in bytes) an image server or a download delivers.
MaxBodyLen == 2
\* How many fields of the resolver the builder calls change from new().
MaxConfigChanges == 1

\* ----------------------------------------------------------------- Option
None == <<>>
Some(x) == <<x>>
IsSome(o) == Len(o) > 0
Unwrap(o) == o[1]
First(s) == IF Len(s) > 0 THEN Some(s[1]) ELSE None
Last(s) == IF Len(s) > 0 THEN Some(s[Len(s)]) ELSE None
Nth(s, n) == IF n + 1 <= Len(s) THEN Some(s[n + 1]) ELSE None
UnwrapOr(o, d) == IF IsSome(o) THEN Unwrap(o) ELSE d
SetMin(S) == CHOOSE x \in S : \A y \in S : x <= y

\* ---------------------------------------------------------------- strings
\* p occurs in s at index i
OccursAt(s, p, i) ==
    /\ i >= 1
    /\ i + Len(p) - 1 <= Len(s)
    /\ \A k \in 1..Len(p) : s[i + k - 1] = p[k]

StartsWith(s, p) == OccursAt(s, p, 1)

EndsWith(s, p) == Len(p) <= Len(s) /\ OccursAt(s, p, Len(s) - Len(p) + 1)

\* index of the first occurrence of p in s, 0 when there is none
Find(s, p) ==
    LET I == {i \in 1..(Len(s) - Len(p) + 1) : OccursAt(s, p, i)}
    IN  IF I = {} THEN 0 ELSE SetMin(I)

\* str::split with a non-empty pattern: the pieces between the occurrences
RECURSIVE Split(_, _)
Split(s, sep) ==
    LET i == Find(s, sep)
    IN  IF i = 0 THEN <<s>>
        ELSE <<SubSeq(s, 1, i - 1)>> \o Split(SubSeq(s, i + Len(sep), Len(s)), sep)

RECURSIVE Join(_, _)
Join(pieces, sep) ==
    IF Len(pieces) = 0 THEN <<>>
    ELSE IF Len(pieces) = 1 THEN pieces[1]
    ELSE pieces[1] \o sep \o Join(Tail(pieces), sep)

\* str::replace
Replace(s, from, to) == Join(Split(s, from), to)

\* str::trim_start_matches and str::trim_end_matches with a set of characters
RECURSIVE TrimStartMatches(_, _)
TrimStartMatches(s, C) ==
    IF Len(s) > 0 /\ Head(s) \in C THEN TrimStartMatches(Tail(s), C) ELSE s

RECURSIVE TrimEndMatches(_, _)
TrimEndMatches(s, C) ==
    IF Len(s) > 0 /\ s[Len(s)] \in C
    THEN TrimEndMatches(SubSeq(s, 1, Len(s) - 1), C)
    ELSE s

\* str::trim_matches with a set of characters
TrimMatches(s, C) == TrimEndMatches(TrimStartMatches(s, C), C)

Whitespace == {" ", "\t", "\n"}
AlNum == {"a","b","c","d","e","f","g","h","i","j","k","l","m","n","o","p","q","r",
          "s","t","u","v","w","x","y","z","A","B","C","D","E","F","G","H","I","J",
          "K","L","M","N","O","P","Q","R","S","T","U","V","W","X","Y","Z",
          "0","1","2","3","4","5","6","7","8","9"}
Digits == <<"0","1","2","3","4","5","6","7","8","9">>
DigitValue(c) == (CHOOSE i \in 1..10 : Digits[i] = c) - 1
IsDigit(c) == \E i \in 1..10 : Digits[i] = c

\* u64::from_str_radix(s, 10): an optional "+", then one digit or more.
\* The header values of the model are short, so the value never leaves u64.
RECURSIVE DigitsValue(_, _)
DigitsValue(s, acc) ==
    IF Len(s) = 0 THEN acc ELSE DigitsValue(Tail(s), acc * 10 + DigitValue(Head(s)))

from_str_radix(s) ==
    LET d == IF Len(s) > 0 /\ Head(s) = "+" THEN Tail(s) ELSE s
    IN  IF Len(d) > 0 /\ \A i \in 1..Len(d) : IsDigit(d[i])
        THEN Some(DigitsValue(d, 0))
        ELSE None

\* -------------------------------------------------------------- constants
DEFAULT_MAX_WIDTH == 2048
DEFAULT_MAX_HEIGHT == DEFAULT_MAX_WIDTH
DEFAULT_MAX_SIZE == 1024 * 1024 * 6

ALLOWED_CONTENT_TYPES ==
    << <<"i", "m", "a", "g", "e", "/", "p", "n", "g">>,
       <<"i", "m", "a", "g", "e", "/", "j", "p", "e", "g">>,
       <<"i", "m", "a", "g", "e", "/", "j", "p", "g">>,
       <<"i", "m", "a", "g", "e", "/", "w", "e", "b", "p">> >>

ALLOWED_SUFFIXES ==
    << <<".", "p", "n", "g">>,
       <<".", "j", "p", "e", "g">>,
       <<".", "j", "p", "g">>,
       <<".", "w", "e", "b", "p">> >>

\* length of the match of `https?://` at index i of s, 0 when there is none
SchemeAt(s, i) ==
    IF s[i] # "h" THEN 0
    ELSE IF OccursAt(s, <<"h", "t", "t", "p", "s", ":", "/", "/">>, i) THEN 8
    ELSE IF OccursAt(s, <<"h", "t", "t", "p", ":", "/", "/">>, i) THEN 7
    ELSE 0

\* the index after `https?://(www\.)?` matched at i with the www part taken
\* (w = 4) or not (w = 0); 0 when that does not match
HostAt(s, i, w) ==
    LET n == SchemeAt(s, i)
    IN  IF n = 0 THEN 0
        ELSE IF w = 4 /\ ~OccursAt(s, <<"w", "w", "w", ".">>, i + n) THEN 0
        ELSE i + n + w

\* URL_REGEX = https?://\S+ : the capture groups of the leftmost match (group 0
\* only, the pattern has no parenthesised group), None when nothing matches
URL_REGEX_captures(s) ==
    LET I == {i \in 1..Len(s) :
                 /\ SchemeAt(s, i) > 0
                 /\ i + SchemeAt(s, i) <= Len(s)
                 /\ s[i + SchemeAt(s, i)] \notin Whitespace}
    IN  IF I = {} THEN None
        ELSE LET i == SetMin(I)
                 stop == {j \in i..Len(s) : s[j] \in Whitespace}
                 e == IF stop = {} THEN Len(s) ELSE SetMin(stop) - 1
             IN  Some(<<SubSeq(s, i, e)>>)

\* Captures::get(i): group i of a match, None for a group the pattern lacks
CapturesGet(c, i) == Nth(c, i)

\* TENOR_REGEX = https?://(www\.)?tenor\.com/view/\S+/ , unanchored
TENOR_REGEX_is_match(s) ==
    \E i \in 1..Len(s), w \in {0, 4} :
        LET h == HostAt(s, i, w)
            b == h + Len(<<"t", "e", "n", "o", "r", ".", "c", "o", "m", "/", "v", "i", "e", "w", "/">>)
        IN  /\ h > 0
            /\ OccursAt(s, <<"t", "e", "n", "o", "r", ".", "c", "o", "m", "/", "v", "i", "e", "w", "/">>, h)
            /\ \E e \in (b + 1)..Len(s) :
                  /\ s[e] = "/"
                  /\ \A j \in b..(e - 1) : s[j] \notin Whitespace

\* GIPHY_REGEX = https?://(www\.)?giphy\.com/gifs/[A-Za-z0-9]+/? , unanchored
GIPHY_REGEX_is_match(s) ==
    \E i \in 1..Len(s), w \in {0, 4} :
        LET h == HostAt(s, i, w)
            b == h + Len(<<"g", "i", "p", "h", "y", ".", "c", "o", "m", "/", "g", "i", "f", "s", "/">>)
        IN  /\ h > 0
            /\ OccursAt(s, <<"g", "i", "p", "h", "y", ".", "c", "o", "m", "/", "g", "i", "f", "s", "/">>, h)
            /\ b <= Len(s)
            /\ s[b] \in AlNum

\* ---------------------------------------------------------------- results
Pending == [tag |-> "Pending", value |-> <<>>, msg |-> "", text |-> <<>>, nums |-> <<>>]
Ok(b) == [tag |-> "Ok", value |-> b, msg |-> "", text |-> <<>>, nums |-> <<>>]
\* CommandError::from(format!(msg, ...)): the format string, its string
\* argument and its numeric arguments
Err(m, t, n) == [tag |-> "Err", value |-> <<>>, msg |-> m, text |-> t, nums |-> n]
\* an unwrap() of None/Err or a slice out of range: the task panics
Panic == [tag |-> "Panic", value |-> <<>>, msg |-> "", text |-> <<>>, nums |-> <<>>]

\* the error `?` makes of a failed reqwest call
ReqwestError == Err("reqwest::Error", <<>>, <<>>)
\* the error `?` makes of a failed Attachment::download
DownloadError == Err("serenity::Error", <<>>, <<>>)

\* ------------------------------------------------------- the ImageResolver
new ==
    [allow_gifs |-> TRUE, allow_user_avatars |-> TRUE,
     fallback_to_user_avatar |-> TRUE, run_conversions |-> TRUE,
     max_width |-> DEFAULT_MAX_WIDTH, max_height |-> DEFAULT_MAX_HEIGHT,
     max_size |-> DEFAULT_MAX_SIZE]

\* the fields r differs in from new()
Changed(r) == {f \in DOMAIN new : r[f] # new[f]}

\* a builder call: allowed before resolve, within the bound on the changes
Build(r) ==
    /\ pc = "new"
    /\ Cardinality(Changed(r)) <= MaxConfigChanges
    /\ resolver' = r
    /\ UNCHANGED <<pc, message, query, resolved_query, allowed_content_types,
                   allowed_suffixes, call_site, candidate, reply_reads,
                   sanitize_calls, url, scraped, resp, requests, downloads, result>>

disallow_gifs == Build([resolver EXCEPT !.allow_gifs = FALSE])

disallow_user_avatars == Build([resolver EXCEPT !.allow_user_avatars = FALSE])

disable_fallback_to_user_avatar ==
    Build([resolver EXCEPT !.fallback_to_user_avatar = FALSE])

disable_conversions == Build([resolver EXCEPT !.run_conversions = FALSE])

\* the ceilings a caller sets: one below everything the model's media have
SmallCeilings == {1}

max_width == \E width \in SmallCeilings : Build([resolver EXCEPT !.max_width = width])

max_height == \E height \in SmallCeilings : Build([resolver EXCEPT !.max_height = height])

max_size == \E size \in SmallCeilings : Build([resolver EXCEPT !.max_size = size])

\* _humanize_size: <<size, divisor, index of the unit>>, the value printed
\* being size / divisor in units[index]; <<>> is unreachable!()
RECURSIVE humanize_loop(_, _, _)
humanize_loop(size, den, unit) ==
    IF unit > 6 THEN <<>>
    ELSE IF size < 1024 * den THEN <<size, den, unit>>
    ELSE humanize_loop(size, den * 1024, unit + 1)

_humanize_size(size) == humanize_loop(size, 1, 1)

\* -------------------------------------------------------------- scraping
\* the extraction of _scrape_tenor: Some(url), or None where an unwrap()
\* or the slice [2..] panics
tenor_extract(text) ==
    LET a == Nth(Split(text, <<"c", "o", "n", "t", "e", "n", "t", "U", "r", "l">>), 1)
    IN  IF ~IsSome(a) THEN None
        ELSE LET b == Unwrap(Nth(Split(Unwrap(a), <<"c", "o", "n", "t", "e", "n", "t">>), 0))
             IN  IF Len(b) < 2 THEN None
                 ELSE LET c == Nth(Split(SubSeq(b, 3, Len(b)), <<"\"">>), 1)
                      IN  IF ~IsSome(c) THEN None
                          ELSE Some(Replace(Unwrap(c), <<"\\", "u", "0", "0", "2", "F">>, <<"/">>))

\* the extraction of _scrape_giphy
giphy_extract(text) ==
    LET a == Nth(Split(text, <<"h", "t", "t", "p", "s", ":", "/", "/", "m", "e", "d", "i", "a">>), 2)
    IN  IF ~IsSome(a) THEN None
        ELSE Some(<<"h", "t", "t", "p", "s", ":", "/", "/", "m", "e", "d", "i", "a">> \o Unwrap(Nth(Split(Unwrap(a), <<"\"">>), 0)))

is_success(status) == 200 <= status /\ status <= 299

\* what a scrape returns for the answer `ans` to its GET: Ok carries the URL
scrape_result(ans, site) ==
    LET extracted == IF ~IsSome(ans.text) THEN None
                     ELSE IF site = "tenor" THEN tenor_extract(Unwrap(ans.text))
                     ELSE giphy_extract(Unwrap(ans.text))
    IN  IF ~ans.sent THEN ReqwestError
        ELSE IF is_success(ans.status)
        THEN IF ~IsSome(ans.text) THEN ReqwestError
             ELSE IF IsSome(extracted) THEN Ok(Unwrap(extracted))
             ELSE Panic
        ELSE Err("URL returned status code {}", <<>>, <<ans.status>>)

\* ------------------------------------------------------------- _sanitize
Attachment(a) == [kind |-> "Attachment", attachment |-> Some(a), url |-> <<>>]
Url(u) == [kind |-> "Url", attachment |-> None, url |-> u]
NoCandidate == [kind |-> "None", attachment |-> None, url |-> <<>>]

\* line 186: some allowed suffix is not a suffix of the filename
suffix_rejected(filename, suffixes) ==
    \E i \in 1..Len(suffixes) : ~EndsWith(filename, suffixes[i])

\* the checks of the Attachment branch, before the download: Pending when
\* all pass
attachment_checks(self, a, suffixes) ==
    IF suffix_rejected(a.filename, suffixes)
    THEN Err("File extension {} is not allowed",
             UnwrapOr(Last(Split(a.filename, <<".">>)), <<"u", "n", "k", "n", "o", "w", "n">>), <<>>)
    ELSE IF a.size > self.max_size
    THEN Err("Attachment is too big. ({} > {})", <<>>,
             _humanize_size(a.size) \o _humanize_size(self.max_size))
    ELSE IF ~IsSome(a.width) \/ ~IsSome(a.height)
    THEN Err("Invalid attachment. (Could not get a width or height from it.)",
             <<>>, <<>>)
    ELSE IF Unwrap(a.width) > self.max_width
    THEN Err("Attachment width of {} surpasses the maximum of {}.", <<>>,
             <<Unwrap(a.width), self.max_width>>)
    ELSE IF Unwrap(a.height) > self.max_height
    THEN Err("Attachment height of {} surpasses the maximum of {}.", <<>>,
             <<Unwrap(a.height), self.max_height>>)
    ELSE Pending

\* lines 215-227: the Bytes branch (resolve itself never builds a
\* RawResult::Bytes)
sanitize_bytes(self, data) ==
    IF Len(data) > self.max_size
    THEN Err("File is too big. ({} > {})", <<>>,
             _humanize_size(Len(data)) \o _humanize_size(self.max_size))
    ELSE Ok(data)

\* the header checks of the Url branch on the answer to the direct GET:
\* Pending when the body is to be read
header_checks(self, ans, content_types) ==
    IF ~ans.sent THEN ReqwestError
    ELSE IF is_success(ans.status)
    THEN IF ~IsSome(ans.content_type) THEN Err("Invalid Content-Type.", <<>>, <<>>)
         ELSE IF ~Unwrap(ans.content_type).visible_ascii THEN Panic
         ELSE LET content_type == Unwrap(ans.content_type).str
              IN  IF \A i \in 1..Len(content_types) : content_types[i] # content_type
                  THEN Err("Content-Type {} is not allowed", content_type, <<>>)
                  ELSE IF IsSome(ans.content_length)
                  THEN IF ~Unwrap(ans.content_length).visible_ascii THEN Panic
                       ELSE LET size == UnwrapOr(
                                    from_str_radix(Unwrap(ans.content_length).str), 0)
                            IN  IF size > self.max_size
                                THEN Err("File is too big. ({} > {})", <<>>,
                                         _humanize_size(size)
                                             \o _humanize_size(self.max_size))
                                ELSE Pending
                  ELSE Err("URL returned status code {}", <<>>, <<ans.status>>)
    ELSE Err("URL returned status code {}", <<>>, <<ans.status>>)

\* ------------------------------------------------- the fallback closure
\* the URL an embed offers (lines 298-314)
embed_url(embed) ==
    IF embed.kind = "image" THEN embed.thumbnail
    ELSE IF embed.kind = "rich"
    THEN IF IsSome(embed.image) THEN embed.image ELSE embed.thumbnail
    ELSE None

\* the URL taken from the text of the replied-to message (lines 316-320)
content_url(content) ==
    LET c == URL_REGEX_captures(content)
    IN  IF IsSome(c) THEN CapturesGet(Unwrap(c), 1) ELSE None

\* the avatar URL (lines 325-330)
avatar_url(self, author) ==
    LET avatar == Unwrap(author.avatar)
    IN  <<"h", "t", "t", "p", "s", ":", "/", "/", "c", "d", "n", ".", "d", "i", "s", "c",
          "o", "r", "d", "a", "p", "p", ".", "c", "o", "m", "/", "a", "v", "a", "t", "a",
          "r", "s", "/">> \o author.id \o <<"/">> \o avatar \o <<".">>
            \o (IF self.allow_gifs /\ StartsWith(avatar, <<"a", "_">>)
                THEN <<"g", "i", "f">>
                ELSE <<"p", "n", "g">>)
            \o <<"?", "s", "i", "z", "e", "=", "5", "1", "2">>

\* what the closure finds in the replied-to message, and the fields it read
reply_candidate(reference) ==
    LET a == First(reference.attachments)
        e == First(reference.embeds)
        eu == IF IsSome(e) THEN embed_url(Unwrap(e)) ELSE None
        cu == content_url(reference.content)
    IN  IF IsSome(a)
        THEN [found |-> TRUE, candidate |-> Attachment(Unwrap(a)),
              reads |-> {"attachments"}]
        ELSE IF IsSome(eu)
        THEN [found |-> TRUE, candidate |-> Url(Unwrap(eu)),
              reads |-> {"attachments", "embeds"}]
        ELSE IF IsSome(cu)
        THEN [found |-> TRUE, candidate |-> Url(Unwrap(cu)),
              reads |-> {"attachments", "embeds", "content"}]
        ELSE [found |-> FALSE, candidate |-> NoCandidate,
              reads |-> {"attachments", "embeds", "content"}]

\* fallback with the replied-to message looked at before the message itself
fallback_reply_first(self, msg) ==
    LET own == First(msg.attachments)
        reply == IF IsSome(msg.referenced_message)
                 THEN reply_candidate(Unwrap(msg.referenced_message))
                 ELSE [found |-> FALSE, candidate |-> NoCandidate, reads |-> {}]
    IN  IF reply.found THEN reply
        ELSE IF IsSome(own)
        THEN [found |-> TRUE, candidate |-> Attachment(Unwrap(own)),
              reads |-> reply.reads]
        ELSE IF /\ self.allow_user_avatars
                /\ self.fallback_to_user_avatar
                /\ IsSome(msg.author.avatar)
        THEN [found |-> TRUE, candidate |-> Url(avatar_url(self, msg.author)),
              reads |-> reply.reads]
        ELSE [found |-> FALSE, candidate |-> NoCandidate, reads |-> reply.reads]

\* the candidate the closure hands to _sanitize (found), or none (lines 288-335)
fallback(self, msg) ==
    LET own == First(msg.attachments)
        reply == IF IsSome(msg.referenced_message)
                 THEN reply_candidate(Unwrap(msg.referenced_message))
                 ELSE [found |-> FALSE, candidate |-> NoCandidate, reads |-> {}]
    IN  IF IsSome(own)
        THEN [found |-> TRUE, candidate |-> Attachment(Unwrap(own)), reads |-> {}]
        ELSE IF reply.found THEN reply
        ELSE IF /\ self.allow_user_avatars
                /\ self.fallback_to_user_avatar
                /\ IsSome(msg.author.avatar)
        THEN [found |-> TRUE, candidate |-> Url(avatar_url(self, msg.author)),
              reads |-> reply.reads]
        ELSE [found |-> FALSE, candidate |-> NoCandidate, reads |-> reply.reads]

\* after_fallback with the return of line 345 missing: resolve runs on to the
\* fallback() of line 348
after_fallback_no_return(site) ==
    IF site = 345 THEN [pc |-> "fallback", call_site |-> 348]
    ELSE [pc |-> "done", call_site |-> site]

\* where resolve goes once the fallback() called at `site` has returned:
\* both calls (return fallback().await, and the tail expression) return
after_fallback(site) == [pc |-> "done", call_site |-> site]

\* fetch_target with the scraped URL dropped: the candidate's URL is fetched
fetch_target_candidate == TrimMatches(candidate.url, {"<", ">"})

\* the URL of the direct GET: the trimmed candidate, or what a scrape left
fetch_target == IF pc = "sanitize" THEN TrimMatches(candidate.url, {"<", ">"}) ELSE url

\* ------------------------------------------------------------ the inputs
Filenames ==
    {<<"a", ".", "p", "n", "g">>,
     <<"a", ".", "g", "i", "f">>,
     <<"a", ".", "b", "m", "p">>}
SizeValues == {1, 2}
DimValues == {None, Some(1), Some(2)}
Attachments ==
    [filename : Filenames, size : SizeValues, width : DimValues, height : DimValues]

ShareTenor == <<"<", "h", "t", "t", "p", "s", ":", "/", "/", "t", "e", "n", "o", "r", ".", "c",
                "o", "m", "/", "v", "i", "e", "w", "/", "x", "/", ">">>
ShareGiphy == <<"h", "t", "t", "p", "s", ":", "/", "/", "g", "i", "p", "h", "y", ".", "c", "o",
                "m", "/", "g", "i", "f", "s", "/", "a">>
Embeds ==
    [kind : {"image", "rich", "video"}, image : {None, Some(ShareGiphy)},
     thumbnail : {None, Some(ShareTenor)}]
Contents ==
    {<<>>,
     <<"s", "e", "e", " ", "h", "t", "t", "p", "s", ":", "/", "/", "e", ".", "x", "/",
       "a", ".", "p", "n", "g", " ", "n", "o", "w">>}
Authors ==
    [id : {<<"4", "2">>},
     avatar : {None,
               Some(<<"a", "b", "c", "1", "2", "3">>),
               Some(<<"a", "_", "b">>)}]

OneOrNone(S) == {<<>>} \cup {<<x>> : x \in S}

\* replied-to messages
References ==
    [attachments : OneOrNone(Attachments), embeds : OneOrNone(Embeds),
     content : Contents]

\* The messages resolve is called with.  What the closure never looks at once
\* it has found an attachment is sampled, not enumerated: a message with an
\* attachment of its own replies to nothing or to one of SideReferences, and
\* a replied-to message with an attachment has one embed and one text.
SideAttachments ==
    {[filename |-> <<"a", ".", "p", "n", "g">>,
      size |-> 1, width |-> Some(1), height |-> Some(1)],
     [filename |-> <<"a", ".", "b", "m", "p">>,
      size |-> 2, width |-> None, height |-> None]}
SideEmbed == [kind |-> "rich", image |-> None, thumbnail |-> Some(ShareTenor)]
SideContent == <<"s", "e", "e", " ", "h", "t", "t", "p", "s", ":", "/", "/", "e", ".", "x", "/",
                 "a", ".", "p", "n", "g", " ", "n", "o", "w">>
SideReferences ==
    {[attachments |-> <<b>>, embeds |-> <<>>, content |-> <<>>] :
        b \in SideAttachments}
    \cup
    {[attachments |-> <<>>, embeds |-> <<SideEmbed>>, content |-> SideContent]}
SideAuthor == [id |-> <<"4", "2">>, avatar |-> Some(<<"a", "b", "c", "1", "2", "3">>)]

Messages ==
    {[attachments |-> <<a>>, referenced_message |-> r, author |-> SideAuthor] :
        a \in Attachments, r \in OneOrNone(SideReferences)}
    \cup
    {[attachments |-> <<>>,
      referenced_message |->
          Some([attachments |-> <<a>>, embeds |-> <<SideEmbed>>,
                content |-> SideContent]),
      author |-> SideAuthor] : a \in Attachments}
    \cup
    {[attachments |-> <<>>, referenced_message |-> r, author |-> au] :
        r \in OneOrNone({x \in References : x.attachments = <<>>}), au \in Authors}

Queries == {None, Some(<<"q">>)}

\* the answers a share page gives to a GET followed by text()
Pages ==
    { <<"{", "\"", "c", "o", "n", "t", "e", "n", "t", "U", "r", "l", "\"", ":", "\"", "h",
        "t", "t", "p", "s", ":", "\\", "u", "0", "0", "2", "F", "\\", "u", "0", "0", "2",
        "F", "m", ".", "t", "\\", "u", "0", "0", "2", "F", "a", ".", "g", "i", "f", "\"",
        ",", "\"", "c", "o", "n", "t", "e", "n", "t", "S", "i", "z", "e", "\"", ":", "1",
        "}">>,
      <<"<", "h", "t", "m", "l", ">", "g", "o", "n", "e", "<", "/", "h", "t", "m", "l",
        ">">>,
      <<"c", "o", "n", "t", "e", "n", "t", "U", "r", "l", "\"">>,
      <<"c", "o", "n", "t", "e", "n", "t", "U", "r", "l", " ", "=", " ", "n", "o", "n",
        "e", ";", " ", "c", "o", "n", "t", "e", "n", "t">>,
      <<"a", " ", "h", "t", "t", "p", "s", ":", "/", "/", "m", "e", "d", "i", "a", "0",
        ".", "g", "/", "x", "\"", " ", "b", " ", "h", "t", "t", "p", "s", ":", "/", "/",
        "m", "e", "d", "i", "a", "1", ".", "g", "/", "y", ".", "g", "i", "f", "\"", " ",
        "c">>,
      <<"h", "t", "t", "p", "s", ":", "/", "/", "m", "e", "d", "i", "a", "0", ".", "g",
        "/", "x">> }
ScrapeAnswers ==
    {[sent |-> FALSE, status |-> 0, text |-> None],
     [sent |-> TRUE, status |-> 404, text |-> None],
     [sent |-> TRUE, status |-> 200, text |-> None]}
        \cup {[sent |-> TRUE, status |-> 200, text |-> Some(p)] : p \in Pages}

\* a header value: its bytes as a string, or bytes to_str() refuses
HeaderValue(s) == [visible_ascii |-> TRUE, str |-> s]
Opaque == [visible_ascii |-> FALSE, str |-> <<>>]
ContentTypes ==
    {None,
     Some(Opaque),
     Some(HeaderValue(<<"i", "m", "a", "g", "e", "/", "p", "n", "g">>)),
     Some(HeaderValue(<<"i", "m", "a", "g", "e", "/", "g", "i", "f">>)),
     Some(HeaderValue(<<"t", "e", "x", "t", "/", "h", "t", "m", "l">>))}
ContentLengths ==
    {None,
     Some(Opaque),
     Some(HeaderValue(<<"1">>)),
     Some(HeaderValue(<<"9">>)),
     Some(HeaderValue(<<"n", "/", "a">>))}
\* the answers to the direct GET: status and headers (the headers of an
\* answer without success are never looked at: one such answer is enough)
Answers ==
    {[sent |-> FALSE, status |-> 0, content_type |-> None, content_length |-> None],
     [sent |-> TRUE, status |-> 404,
      content_type |-> Some(HeaderValue(<<"t", "e", "x", "t", "/", "h", "t", "m", "l">>)),
      content_length |-> None]}
        \cup [sent : {TRUE}, status : {200}, content_type : ContentTypes,
              content_length : ContentLengths]
\* the bodies bytes() or download() delivers; None is a failed read
RECURSIVE Bytes(_)
Bytes(n) == IF n = 0 THEN <<>> ELSE <<"x">> \o Bytes(n - 1)
Bodies == {None} \cup {Some(Bytes(n)) : n \in 0..MaxBodyLen}

\* ---------------------------------------------------------------- actions
Init ==
    /\ resolver = new
    /\ pc = "new"
    /\ message = None
    /\ query = None
    /\ resolved_query = None
    /\ allowed_content_types = <<>>
    /\ allowed_suffixes = <<>>
    /\ call_site = 0
    /\ candidate = NoCandidate
    /\ reply_reads = {}
    /\ sanitize_calls = 0
    /\ url = <<>>
    /\ scraped = None
    /\ resp = None
    /\ requests = <<>>
    /\ downloads = <<>>
    /\ result = Pending

\* the fallback() call returns r, and resolve goes on from the call site
Finish(r) ==
    /\ result' = r
    /\ pc' = after_fallback(call_site).pc
    /\ call_site' = after_fallback(call_site).call_site

\* resolve(ctx, message, query) is called
resolve ==
    /\ pc = "new"
    /\ \E m \in Messages, q \in Queries :
          /\ message' = Some(m)
          /\ query' = q
    /\ pc' = "resolve"
    /\ UNCHANGED <<resolver, resolved_query, allowed_content_types, allowed_suffixes,
                   call_site, candidate, reply_reads, sanitize_calls, url, scraped,
                   resp, requests, downloads, result>>

\* lines 270-286: the query is classified (Member::convert and Emoji::convert
\* answer as the platform decides) and the allow-lists are assembled
_run_conversions ==
    /\ pc = "resolve"
    /\ \E kind \in (IF IsSome(query) /\ resolver.run_conversions
                    THEN {"Member", "Emoji", "String"}
                    ELSE IF IsSome(query) THEN {"String"} ELSE {"None"}) :
          resolved_query' = IF kind = "None" THEN None
                            ELSE Some([kind |-> kind, value |-> Unwrap(query)])
    /\ query' = None
    /\ allowed_content_types' =
          IF resolver.allow_gifs THEN Append(ALLOWED_CONTENT_TYPES, <<"i", "m", "a", "g", "e", "/", "g", "i", "f">>)
          ELSE ALLOWED_CONTENT_TYPES
    /\ allowed_suffixes' =
          IF resolver.allow_gifs THEN Append(ALLOWED_SUFFIXES, <<".", "g", "i", "f">>)
          ELSE ALLOWED_SUFFIXES
    /\ pc' = "dispatch"
    /\ UNCHANGED <<resolver, message, call_site, candidate, reply_reads,
                   sanitize_calls, url, scraped, resp, requests, downloads, result>>

\* lines 337-348: the arm of a resolved query does nothing, and either way
\* fallback() is called: at line 345 without a query, at line 348 with one
dispatch ==
    /\ pc = "dispatch"
    /\ call_site' = IF IsSome(resolved_query) THEN 348 ELSE 345
    /\ resolved_query' = None
    /\ pc' = "fallback"
    /\ UNCHANGED <<resolver, message, query, allowed_content_types, allowed_suffixes,
                   candidate, reply_reads, sanitize_calls, url, scraped, resp,
                   requests, downloads, result>>

\* lines 288-335: the closure looks for a candidate and enters _sanitize
\* with the first it finds
run_fallback ==
    /\ pc = "fallback"
    /\ LET f == fallback(resolver, Unwrap(message))
       IN  /\ reply_reads' = reply_reads \cup f.reads
           /\ IF f.found
              THEN /\ candidate' = f.candidate
                   /\ sanitize_calls' = sanitize_calls + 1
                   /\ pc' = "sanitize"
                   /\ UNCHANGED <<result, call_site>>
              ELSE /\ Finish(Err("Could not retrieve an image from the message.",
                                 <<>>, <<>>))
                   /\ UNCHANGED <<candidate, sanitize_calls>>
    /\ UNCHANGED <<resolver, message, query, resolved_query, allowed_content_types,
                   allowed_suffixes, url, scraped, resp, requests, downloads>>

\* lines 185-214: the Attachment branch, the download included
sanitize_attachment ==
    /\ pc = "sanitize"
    /\ candidate.kind = "Attachment"
    /\ \E body \in Bodies :
          LET a == Unwrap(candidate.attachment)
              checks == attachment_checks(resolver, a, allowed_suffixes)
          IN  IF checks = Pending
              THEN /\ downloads' = Append(downloads, a)
                   /\ Finish(IF IsSome(body) THEN Ok(Unwrap(body)) ELSE DownloadError)
              ELSE /\ downloads' = downloads
                   /\ Finish(checks)
    /\ UNCHANGED <<resolver, message, query, resolved_query, allowed_content_types,
                   allowed_suffixes, candidate, reply_reads, sanitize_calls, url,
                   scraped, resp, requests>>

\* a share page is fetched and the media URL extracted from it
Scrape(site) ==
    \E ans \in ScrapeAnswers :
        LET r == scrape_result(ans, site)
        IN  /\ requests' = Append(requests, fetch_target)
            /\ scraped' = Some([url |-> fetch_target, sent |-> ans.sent,
                                status |-> ans.status, text |-> ans.text])
            /\ IF r.tag = "Ok"
               THEN /\ url' = r.value
                    /\ pc' = "get"
                    /\ UNCHANGED <<result, call_site>>
               ELSE /\ url' = fetch_target
                    /\ Finish(r)
            /\ UNCHANGED <<resolver, message, query, resolved_query,
                           allowed_content_types, allowed_suffixes, candidate,
                           reply_reads, sanitize_calls, resp, downloads>>

\* lines 229-233 and _scrape_tenor
_scrape_tenor ==
    /\ pc = "sanitize"
    /\ candidate.kind = "Url"
    /\ TENOR_REGEX_is_match(fetch_target)
    /\ Scrape("tenor")

\* lines 235-237 and _scrape_giphy
_scrape_giphy ==
    /\ pc = "sanitize"
    /\ candidate.kind = "Url"
    /\ ~TENOR_REGEX_is_match(fetch_target)
    /\ GIPHY_REGEX_is_match(fetch_target)
    /\ Scrape("giphy")

\* lines 239-258 and 264: the direct GET and the checks on its headers
get ==
    /\ \/ pc = "get"
       \/ /\ pc = "sanitize"
          /\ candidate.kind = "Url"
          /\ ~TENOR_REGEX_is_match(fetch_target)
          /\ ~GIPHY_REGEX_is_match(fetch_target)
    /\ \E ans \in Answers :
          LET checks == header_checks(resolver, ans, allowed_content_types)
          IN  /\ requests' = Append(requests, fetch_target)
              /\ url' = fetch_target
              /\ resp' = Some([url |-> fetch_target, sent |-> ans.sent,
                               status |-> ans.status,
                               content_type |-> ans.content_type,
                               content_length |-> ans.content_length,
                               body |-> None])
              /\ IF checks = Pending
                 THEN /\ pc' = "body"
                      /\ UNCHANGED <<result, call_site>>
                 ELSE Finish(checks)
    /\ UNCHANGED <<resolver, message, query, resolved_query, allowed_content_types,
                   allowed_suffixes, candidate, reply_reads, sanitize_calls, scraped,
                   downloads>>

\* line 260: the body is read and returned
read_body ==
    /\ pc = "body"
    /\ \E body \in Bodies :
          /\ resp' = Some([Unwrap(resp) EXCEPT !.body = body])
          /\ Finish(IF IsSome(body) THEN Ok(Unwrap(body)) ELSE ReqwestError)
    /\ UNCHANGED <<resolver, message, query, resolved_query, allowed_content_types,
                   allowed_suffixes, candidate, reply_reads, sanitize_calls, url,
                   scraped, requests, downloads>>

Next ==
    \/ disallow_gifs
    \/ disallow_user_avatars
    \/ disable_fallback_to_user_avatar
    \/ disable_conversions
    \/ max_width
    \/ max_height
    \/ max_size
    \/ resolve
    \/ _run_conversions
    \/ dispatch
    \/ run_fallback
    \/ sanitize_attachment
    \/ _scrape_tenor
    \/ _scrape_giphy
    \/ get
    \/ read_body

Spec == Init /\ [][Next]_vars

\* ---------------------------------------------------------- the properties
Returned == pc = "done"
Chosen == pc \in {"sanitize", "get", "body", "done"}
TheMessage == Unwrap(message)
TheReference == Unwrap(TheMessage.referenced_message)
TheAttachment == Unwrap(candidate.attachment)
Trimmed == TrimMatches(candidate.url, {"<", ">"})
NoImageFound == "Could not retrieve an image from the message."
UnsupportedExtension == "File extension {} is not allowed"
InvalidMedia == "Invalid attachment. (Could not get a width or height from it.)"
TooLarge == {"Attachment is too big. ({} > {})", "File is too big. ({} > {})"}

\* the filename ends with one of the allowed extensions
HasAllowedExtension(filename) ==
    \E i \in 1..Len(allowed_suffixes) : EndsWith(filename, allowed_suffixes[i])

\* the replied-to message has an embed image the chain can use
HasEmbedImage(reference) ==
    /\ reference.embeds # <<>>
    /\ \/ reference.embeds[1].kind = "image" /\ IsSome(reference.embeds[1].thumbnail)
       \/ /\ reference.embeds[1].kind = "rich"
          /\ IsSome(reference.embeds[1].image) \/ IsSome(reference.embeds[1].thumbnail)

\* the text holds an http(s) URL
HasUrl(content) == IsSome(URL_REGEX_captures(content))

\* C1: bytes returned are never longer than max_size, whether resolve
\* returns them or in-memory bytes are sanitized, and a body read that is
\* longer than max_size ends in a too-big failure.
C1_ReturnedBytesWithinMaxSize ==
    /\ result.tag = "Ok" => Len(result.value) <= resolver.max_size
    /\ \A n \in 0..MaxBodyLen :
          IF n > resolver.max_size
          THEN sanitize_bytes(resolver, Bytes(n)).msg \in TooLarge
          ELSE sanitize_bytes(resolver, Bytes(n)) = Ok(Bytes(n))
    /\ (/\ Returned
        /\ IsSome(resp)
        /\ IsSome(Unwrap(resp).body)
        /\ Len(Unwrap(Unwrap(resp).body)) > resolver.max_size)
           => result.msg \in TooLarge

\* C2: an attachment without a width or without a height is refused as
\* invalid media, whatever its declared size.
C2_MissingDimensionsInvalidMedia ==
    (/\ Returned
     /\ candidate.kind = "Attachment"
     /\ ~IsSome(TheAttachment.width) \/ ~IsSome(TheAttachment.height))
        => result.msg = InvalidMedia

\* C3: an attachment is refused for its extension exactly when its filename
\* ends with none of the allowed extensions, and then nothing is downloaded.
C3_ExtensionRefusedIffNotAllowed ==
    (Returned /\ candidate.kind = "Attachment")
        => /\ result.msg = UnsupportedExtension
                <=> ~HasAllowedExtension(TheAttachment.filename)
           /\ result.msg = UnsupportedExtension => downloads = <<>>

\* the message has an attachment and replies to one with another attachment
OwnAndReplyAttachment ==
    /\ IsSome(message)
    /\ TheMessage.attachments # <<>>
    /\ IsSome(TheMessage.referenced_message)
    /\ TheReference.attachments # <<>>
    /\ TheReference.attachments[1] # TheMessage.attachments[1]

\* C4: with an attachment of its own and a reply holding another one, the
\* message's first attachment is what is sanitized, and nothing of the
\* replied-to message is read, however the sanitization ends.
C4_OwnAttachmentBeforeReply ==
    (Chosen /\ OwnAndReplyAttachment)
        => /\ candidate = Attachment(TheMessage.attachments[1])
           /\ sanitize_calls = 1
           /\ reply_reads = {}

C4_Witness == Returned /\ OwnAndReplyAttachment /\ result.tag = "Err"

\* C5: for a URL candidate matching the tenor pattern once trimmed, the first
\* request is the share page, the second (if any) is the URL extracted from
\* that page, and bytes returned are the body answered for that second URL.
C5_TenorUnfurledBeforeFetch ==
    (candidate.kind = "Url" /\ TENOR_REGEX_is_match(Trimmed))
        => /\ Len(requests) <= 2
           /\ requests # <<>>
                => /\ requests[1] = Trimmed
                   /\ IsSome(scraped)
                   /\ Unwrap(scraped).url = Trimmed
           /\ IsSome(resp) => Len(requests) = 2
           /\ Len(requests) = 2
                => /\ is_success(Unwrap(scraped).status)
                   /\ IsSome(Unwrap(scraped).text)
                   /\ Some(requests[2]) = tenor_extract(Unwrap(Unwrap(scraped).text))
                   /\ IsSome(resp)
                   /\ Unwrap(resp).url = requests[2]
           /\ result.tag = "Ok"
                => /\ IsSome(resp)
                   /\ Unwrap(resp).body = Some(result.value)

C5_Witness ==
    /\ Returned
    /\ candidate.kind = "Url"
    /\ TENOR_REGEX_is_match(Trimmed)
    /\ result.tag = "Ok"
    /\ Len(requests) = 2
    /\ requests[2] # requests[1]

\* C6: _sanitize is entered at most once in a resolve call, its outcome is
\* what resolve returns, and nothing further is fetched or downloaded.
C6_SanitizedAtMostOnce ==
    /\ sanitize_calls <= 1
    /\ Len(downloads) <= 1
    /\ Len(requests) <= 2
    /\ Returned => /\ result # Pending
                   /\ sanitize_calls = 0 <=> result.msg = NoImageFound

\* a found candidate failed although a later source had something to offer
C6_Witness ==
    /\ Returned
    /\ sanitize_calls = 1
    /\ result.tag = "Err"
    /\ TheMessage.attachments # <<>>
    /\ IsSome(TheMessage.referenced_message)
    /\ TheReference.attachments # <<>>
    /\ IsSome(TheMessage.author.avatar)

\* C7: a successful answer with an allowed Content-Type and no Content-Length
\* has its body read and returned.
C7_NoContentLengthReturnsBody ==
    (/\ Returned
     /\ IsSome(resp)
     /\ Unwrap(resp).sent
     /\ is_success(Unwrap(resp).status)
     /\ IsSome(Unwrap(resp).content_type)
     /\ Unwrap(Unwrap(resp).content_type).visible_ascii
     /\ \E i \in 1..Len(allowed_content_types) :
           allowed_content_types[i] = Unwrap(Unwrap(resp).content_type).str
     /\ ~IsSome(Unwrap(resp).content_length))
        => /\ result.tag = "Ok"
           /\ Unwrap(resp).body = Some(result.value)

\* no candidate exists anywhere in the chain
NoCandidateExists ==
    /\ TheMessage.attachments = <<>>
    /\ \/ ~IsSome(TheMessage.referenced_message)
       \/ /\ TheReference.attachments = <<>>
          /\ ~HasEmbedImage(TheReference)
          /\ ~HasUrl(TheReference.content)
    /\ \/ ~(resolver.allow_user_avatars /\ resolver.fallback_to_user_avatar)
       \/ ~IsSome(TheMessage.author.avatar)

\* C8: resolve fails for want of an image exactly when no candidate exists
\* anywhere in the chain.
C8_NoImageFoundIffNoCandidate ==
    Returned => (result.msg = NoImageFound <=> NoCandidateExists)

\* the page read by the scrape lacks the marker its extraction looks for
MarkerMissing ==
    /\ IsSome(scraped)
    /\ Unwrap(scraped).sent
    /\ is_success(Unwrap(scraped).status)
    /\ IsSome(Unwrap(scraped).text)
    /\ IF TENOR_REGEX_is_match(Unwrap(scraped).url)
       THEN Find(Unwrap(Unwrap(scraped).text), <<"c", "o", "n", "t", "e", "n", "t", "U", "r", "l">>) = 0
       ELSE Len(Split(Unwrap(Unwrap(scraped).text), <<"h", "t", "t", "p", "s", ":", "/", "/", "m", "e", "d", "i", "a">>)) < 3

\* C9: a share page answered with success but without the marker makes the
\* scrape return a failure value: no panic, no URL.
C9_MarkerMissingIsFailureValue ==
    MarkerMissing => /\ result.tag = "Err"
                     /\ Len(requests) = 1

\* the reply offers nothing but a URL in its text
ReplyOffersOnlyUrl ==
    /\ IsSome(message)
    /\ TheMessage.attachments = <<>>
    /\ IsSome(TheMessage.referenced_message)
    /\ TheReference.attachments = <<>>
    /\ ~HasEmbedImage(TheReference)
    /\ HasUrl(TheReference.content)

\* C10: when the reply offers nothing but a URL in its text, the first URL
\* matched there is the candidate handed to the sanitizer, avatar or not.
C10_ReplyUrlIsCandidate ==
    (Returned /\ ReplyOffersOnlyUrl)
        => /\ sanitize_calls = 1
           /\ candidate = Url(Unwrap(URL_REGEX_captures(TheReference.content))[1])
====
